---- MODULE Spec2Model ----
(***************************************************************************)
(* Model of the AI Job Interview Assistant service (src/main.py):         *)
(* module start-up, the four POST generation handlers, / and /health.      *)
(* Python strings are TLA+ strings; an optional value is a tagged record.  *)
(***************************************************************************)
EXTENDS Integers, Sequences, FiniteSets, TLC

VARIABLES env, proc, GEMINI_API_KEY, gemini_llm, st

vars == <<env, proc, GEMINI_API_KEY, gemini_llm, st>>

(* ---------------------------------------------------------------------- *)
(* Values                                                                  *)
(* ---------------------------------------------------------------------- *)

\* Python None, and a Python str
None == [kind |-> "none"]
Str(s) == [kind |-> "str", val |-> s]

\* A JSON body member: left out, null, or a string
Absent == [kind |-> "absent"]
JsonNull == [kind |-> "null"]
JsonStr(s) == [kind |-> "str", val |-> s]

\* Number of request slots the server works on concurrently
NumReqs == 2

Reqs == 1..NumReqs

PostEndpoints ==
    {"/generate_overview", "/generate_technical_qa", "/generate_hr_qa", "/generate_interview_tips"}

MkBody(r, e, t) == [role |-> r, experience_level |-> e, tech_stack |-> t]

\* Request bodies of the concurrent specification
Bodies ==
    { MkBody(JsonStr("Data Analyst"), Absent, Absent),
      MkBody(JsonStr("Backend Developer"), JsonStr("Senior"), JsonStr("Python, SQL")),
      MkBody(JsonStr("QA"), JsonNull, JsonStr("")),
      MkBody(Absent, JsonStr("Senior"), Absent) }

\* Request bodies of the one-request specification: every combination
RoleInputs == {Absent, JsonNull, JsonStr(""), JsonStr("Data Analyst"), JsonStr("QA")}
ExpInputs == {Absent, JsonNull, JsonStr(""), JsonStr(" "), JsonStr("Senior"), JsonStr("Fresher")}
TechInputs == {Absent, JsonNull, JsonStr(""), JsonStr("General"), JsonStr("Python, SQL")}
AllBodies == {MkBody(r, e, t) : r \in RoleInputs, e \in ExpInputs, t \in TechInputs}

\* What the environment holds for GEMINI_API_KEY: unset, empty, a key
Keys == {None, Str(""), Str("AIza-key")}

\* str(e) of an exception raised while building or running the crew
Errors == {"503 UNAVAILABLE"}
AllErrors == {"503 UNAVAILABLE", "", "API key not valid"}

\* str(result) of a crew run
Texts == {"Q1: What is an index?\nA1: A lookup structure."}
AllTexts == Texts \cup {"", "Error generating overview: not really"}

(* ---------------------------------------------------------------------- *)
(* Pure functions of the handlers                                          *)
(* ---------------------------------------------------------------------- *)

\* pydantic: role is a required str
ValidBody(body) == body.role.kind = "str"

FieldOr(member, default) ==
    IF member.kind = "absent" THEN default
    ELSE IF member.kind = "null" THEN None
    ELSE Str(member.val)

\* The parsed model: absent members take the declared defaults
JobRoleRequest(body) ==
    [role |-> body.role.val,
     experience_level |-> FieldOr(body.experience_level, Str("Fresher")),
     tech_stack |-> FieldOr(body.tech_stack, None)]

\* As PyOr, written "default if v is None else v"
PyOr_NoneOnly(v, default) == IF v.kind = "str" THEN v.val ELSE default

\* Python: v or default, for v a str or None
PyOr(v, default) == IF v.kind = "str" /\ v.val # "" THEN v.val ELSE default

ExpOf(request) == PyOr(request.experience_level, "Fresher")

\* As TechOf without the default: None is rendered by str()
TechOf_Raw(request) ==
    IF request.tech_stack.kind = "str" THEN request.tech_stack.val ELSE "None"

TechOf(request) == PyOr(request.tech_stack, "General")

\* Task(description=...) of each handler
Description(ep, role, exp, tech) ==
    CASE ep = "/generate_overview" ->
           "Write a structured plain-text interview overview for the role: " \o role \o ".\n"
        \o "Experience level: " \o exp \o ", Tech stack: " \o tech \o ".\n"
        \o "Include: role summary, key responsibilities, technical skills, soft skills, "
        \o "and typical interview rounds (online test, technical rounds, HR, etc.).\n"
        \o "Important: No markdown (*, #, **). Plain clean text only."
      [] ep = "/generate_technical_qa" ->
           "Generate 10 technical interview questions and answers for the job role: " \o role \o ".\n"
        \o "Target candidate level: " \o exp \o ". Relevant technologies: " \o tech \o ".\n"
        \o "Use ONLY plain text (no markdown).\n"
        \o "Format STRICTLY like this:\n"
        \o "Q1: <question text>\n"
        \o "A1: <answer text>\n"
        \o "Q2: <question text>\n"
        \o "A2: <answer text>\n"
        \o "...\n"
        \o "Questions should test core fundamentals, problem solving, and role-specific concepts."
      [] ep = "/generate_hr_qa" ->
           "Generate 10 HR and behavioral interview questions with strong sample answers "
        \o "for a candidate applying as " \o role \o ".\n"
        \o "Focus on communication, teamwork, conflicts, strengths/weaknesses, failure, pressure handling, etc.\n"
        \o "Plain text only. No markdown.\n"
        \o "Format STRICTLY like this:\n"
        \o "Q1: <question text>\n"
        \o "A1: <answer text>\n"
        \o "Q2: <question text>\n"
        \o "A2: <answer text>\n"
        \o "...\n"
        \o "Answers should sound like a good B.Tech student preparing for placements."
      [] ep = "/generate_interview_tips" ->
           "Give interview tips specifically for the role: " \o role \o ".\n"
        \o "Candidate level: " \o exp \o ", Tech: " \o tech \o ".\n"
        \o "Include:\n"
        \o "- Do's before the interview (preparation, resume, projects).\n"
        \o "- Do's during the interview (body language, how to answer).\n"
        \o "- Don'ts (common mistakes students make).\n"
        \o "- Final motivation / confidence boost.\n"
        \o "Use plain text, no markdown, and keep it crisp and practical."

\* As ErrorText with one text for every handler
ErrorText_Bare(ep, e) == "Error: " \o e

\* The text of the except clause of each handler
ErrorText(ep, e) ==
    CASE ep = "/generate_overview" -> "Error generating overview: " \o e
      [] ep = "/generate_technical_qa" -> "Error generating technical Q&A: " \o e
      [] ep = "/generate_hr_qa" -> "Error generating HR Q&A: " \o e
      [] ep = "/generate_interview_tips" -> "Error generating interview tips: " \o e

\* As Envelope with the first handler's dict copied to the other three
Envelope_Copied(ep, role, exp, tech, text) ==
    [role |-> role, experience_level |-> exp, tech_stack |-> tech, overview |-> text]

\* The dict each handler returns
Envelope(ep, role, exp, tech, text) ==
    CASE ep = "/generate_overview" ->
           [role |-> role, experience_level |-> exp, tech_stack |-> tech, overview |-> text]
      [] ep = "/generate_technical_qa" ->
           [role |-> role, experience_level |-> exp, tech_stack |-> tech, technical_qa |-> text]
      [] ep = "/generate_hr_qa" ->
           [role |-> role, experience_level |-> exp, tech_stack |-> tech, hr_qa |-> text]
      [] ep = "/generate_interview_tips" ->
           [role |-> role, experience_level |-> exp, tech_stack |-> tech, interview_tips |-> text]

(* ---------------------------------------------------------------------- *)
(* State                                                                   *)
(* ---------------------------------------------------------------------- *)

NoBody == MkBody(Absent, Absent, Absent)
NoRequest == [kind |-> "none"]
NoResp == [status |-> 0]

\* A request slot nobody is using
Idle ==
    [pc |-> "idle", endpoint |-> "", body |-> NoBody, request |-> NoRequest,
     role |-> "", exp |-> "", tech |-> "", text |-> "", task |-> "",
     kickoffs |-> 0, pending |-> FALSE, raisedAt |-> "none", resp |-> NoResp]

Init ==
    /\ env \in Keys
    /\ proc = "starting"
    /\ GEMINI_API_KEY = None
    /\ gemini_llm = None
    /\ st = [r \in Reqs |-> Idle]

(* ---------------------------------------------------------------------- *)
(* Actions                                                                 *)
(* ---------------------------------------------------------------------- *)

\* As Startup without the check of the key
Startup_NoCheck(staticDirExists) ==
    /\ proc = "starting"
    /\ GEMINI_API_KEY' = env
    /\ gemini_llm' = [model |-> "gemini/gemini-2.5-pro",
                      api_key |-> IF env = None THEN "" ELSE env.val,
                      temperature |-> "0.4"]
    /\ proc' = IF staticDirExists THEN "serving" ELSE "crashed"
    /\ UNCHANGED <<env, st>>

\* Import of the module: load the key, build the LLM, mount /static
Startup(staticDirExists) ==
    /\ proc = "starting"
    /\ GEMINI_API_KEY' = env
    /\ IF env = None
       THEN /\ proc' = "crashed"
            /\ gemini_llm' = gemini_llm
       ELSE /\ gemini_llm' = [model |-> "gemini/gemini-2.5-pro", api_key |-> env.val,
                              temperature |-> "0.4"]
            /\ proc' = IF staticDirExists THEN "serving" ELSE "crashed"
    /\ UNCHANGED <<env, st>>

\* A POST arrives on a generation route
Receive(r, ep, body) ==
    /\ proc = "serving"
    /\ st[r].pc = "idle"
    /\ st' = [st EXCEPT ![r] = [@ EXCEPT !.pc = "received", !.endpoint = ep, !.body = body]]
    /\ UNCHANGED <<env, proc, GEMINI_API_KEY, gemini_llm>>

\* As Validate with the role declared optional (role: str = "")
Validate_RoleOptional(r) ==
    /\ st[r].pc = "received"
    /\ LET s == st[r]
           b == [s.body EXCEPT !.role = IF @.kind = "str" THEN @ ELSE JsonStr("")]
       IN st' = [st EXCEPT ![r] = [s EXCEPT !.pc = "handler", !.request = JobRoleRequest(b)]]
    /\ UNCHANGED <<env, proc, GEMINI_API_KEY, gemini_llm>>

\* The body is parsed into JobRoleRequest before the handler is called
Validate(r) ==
    /\ st[r].pc = "received"
    /\ LET s == st[r]
       IN st' = [st EXCEPT ![r] =
                   IF ValidBody(s.body)
                   THEN [s EXCEPT !.pc = "handler", !.request = JobRoleRequest(s.body)]
                   ELSE [s EXCEPT !.pc = "done",
                                  !.resp = [status |-> 422,
                                            body |-> [detail |-> <<"body", "role">>]]]]
    /\ UNCHANGED <<env, proc, GEMINI_API_KEY, gemini_llm>>

\* As HandlerStart with role, exp and tech kept in module-level names that
\* every handler at work reads
HandlerStart_Globals(r, raises, e) ==
    /\ st[r].pc = "handler"
    /\ LET s == st[r]
           role == s.request.role
           exp == ExpOf(s.request)
           tech == TechOf(s.request)
           loc == [s EXCEPT !.role = role, !.exp = exp, !.tech = tech, !.text = ""]
           mine == IF raises
                   THEN [loc EXCEPT !.pc = "done", !.raisedAt = "construct",
                                    !.text = ErrorText(s.endpoint, e),
                                    !.resp = [status |-> 200,
                                              body |-> Envelope(s.endpoint, role, exp, tech,
                                                                ErrorText(s.endpoint, e))]]
                   ELSE [loc EXCEPT !.pc = "awaiting",
                                    !.task = Description(s.endpoint, role, exp, tech),
                                    !.kickoffs = @ + 1, !.pending = TRUE]
       IN st' = [q \in Reqs |->
                   IF q = r THEN mine
                   ELSE IF st[q].pc = "awaiting"
                        THEN [st[q] EXCEPT !.role = role, !.exp = exp, !.tech = tech]
                        ELSE st[q]]
    /\ UNCHANGED <<env, proc, GEMINI_API_KEY, gemini_llm>>

\* The handler up to crew.kickoff(): locals, agent, task, crew. Building
\* any of them may raise e, which the except clause turns into the text.
HandlerStart(r, raises, e) ==
    /\ st[r].pc = "handler"
    /\ LET s == st[r]
           role == s.request.role
           exp == ExpOf(s.request)
           tech == TechOf(s.request)
           loc == [s EXCEPT !.role = role, !.exp = exp, !.tech = tech, !.text = ""]
       IN st' = [st EXCEPT ![r] =
                   IF raises
                   THEN [loc EXCEPT !.pc = "done", !.raisedAt = "construct",
                                    !.text = ErrorText(s.endpoint, e),
                                    !.resp = [status |-> 200,
                                              body |-> Envelope(s.endpoint, role, exp, tech,
                                                                ErrorText(s.endpoint, e))]]
                   ELSE [loc EXCEPT !.pc = "awaiting",
                                    !.task = Description(s.endpoint, role, exp, tech),
                                    !.kickoffs = @ + 1, !.pending = TRUE]]
    /\ UNCHANGED <<env, proc, GEMINI_API_KEY, gemini_llm>>

\* As KickoffReturn with one more kickoff after the first one raises
KickoffReturn_Retry(r, ok, out) ==
    /\ st[r].pc = "awaiting"
    /\ LET s == st[r]
           text == IF ok THEN out ELSE ErrorText(s.endpoint, out)
       IN st' = [st EXCEPT ![r] =
                   IF ~ok /\ s.kickoffs < 2
                   THEN [s EXCEPT !.kickoffs = @ + 1]
                   ELSE [s EXCEPT !.pc = "done", !.pending = FALSE, !.text = text,
                                  !.raisedAt = IF ok THEN "none" ELSE "kickoff",
                                  !.resp = [status |-> 200,
                                            body |-> Envelope(s.endpoint, s.role, s.exp,
                                                              s.tech, text)]]]
    /\ UNCHANGED <<env, proc, GEMINI_API_KEY, gemini_llm>>

\* crew.kickoff() returns out, or raises out; the handler returns the dict
KickoffReturn(r, ok, out) ==
    /\ st[r].pc = "awaiting"
    /\ LET s == st[r]
           text == IF ok THEN out ELSE ErrorText(s.endpoint, out)
       IN st' = [st EXCEPT ![r] =
                   [s EXCEPT !.pc = "done", !.pending = FALSE, !.text = text,
                             !.raisedAt = IF ok THEN "none" ELSE "kickoff",
                             !.resp = [status |-> 200,
                                       body |-> Envelope(s.endpoint, s.role, s.exp, s.tech, text)]]]
    /\ UNCHANGED <<env, proc, GEMINI_API_KEY, gemini_llm>>

\* As health_check reporting on the generation requests it can see
health_check_Probe(r) ==
    /\ proc = "serving"
    /\ st[r].pc = "idle"
    /\ LET bad == \E q \in Reqs : st[q].raisedAt # "none" \/ st[q].pending
       IN st' = [st EXCEPT ![r] =
                   [@ EXCEPT !.pc = "done", !.endpoint = "/health",
                             !.resp = [status |-> 200,
                                       body |-> [status |-> IF bad THEN "degraded" ELSE "ok"]]]]
    /\ UNCHANGED <<env, proc, GEMINI_API_KEY, gemini_llm>>

\* GET /health
health_check(r) ==
    /\ proc = "serving"
    /\ st[r].pc = "idle"
    /\ st' = [st EXCEPT ![r] = [@ EXCEPT !.pc = "done", !.endpoint = "/health",
                                         !.resp = [status |-> 200, body |-> [status |-> "ok"]]]]
    /\ UNCHANGED <<env, proc, GEMINI_API_KEY, gemini_llm>>

\* GET /: the static page, a server error when the file is not there
root(r, indexExists) ==
    /\ proc = "serving"
    /\ st[r].pc = "idle"
    /\ st' = [st EXCEPT ![r] = [@ EXCEPT !.pc = "done", !.endpoint = "/",
                                         !.resp = IF indexExists
                                                  THEN [status |-> 200, file |-> "static/index.html"]
                                                  ELSE [status |-> 500]]]
    /\ UNCHANGED <<env, proc, GEMINI_API_KEY, gemini_llm>>

\* The response has been sent; nothing of the request is kept
Complete(r) ==
    /\ st[r].pc = "done"
    /\ st' = [st EXCEPT ![r] = Idle]
    /\ UNCHANGED <<env, proc, GEMINI_API_KEY, gemini_llm>>

Next ==
    \/ \E d \in BOOLEAN : Startup(d)
    \/ \E r \in Reqs, ep \in PostEndpoints, body \in Bodies : Receive(r, ep, body)
    \/ \E r \in Reqs : Validate(r)
    \/ \E r \in Reqs, raises \in BOOLEAN, e \in Errors : HandlerStart(r, raises, e)
    \/ \E r \in Reqs, ok \in BOOLEAN : \E out \in (IF ok THEN Texts ELSE Errors) : KickoffReturn(r, ok, out)
    \/ \E r \in Reqs : health_check(r)
    \/ \E r \in Reqs, x \in BOOLEAN : root(r, x)
    \/ \E r \in Reqs : Complete(r)

Spec == Init /\ [][Next]_vars

\* One request at a time, over every body, error and text
NextSeq ==
    \/ \E d \in BOOLEAN : Startup(d)
    \/ \E ep \in PostEndpoints, body \in AllBodies : Receive(1, ep, body)
    \/ Validate(1)
    \/ \E raises \in BOOLEAN, e \in AllErrors : HandlerStart(1, raises, e)
    \/ \E ok \in BOOLEAN : \E out \in (IF ok THEN AllTexts ELSE AllErrors) : KickoffReturn(1, ok, out)
    \/ health_check(1)
    \/ \E x \in BOOLEAN : root(1, x)
    \/ Complete(1)

SpecSeq == Init /\ [][NextSeq]_vars

(* ---------------------------------------------------------------------- *)
(* Properties                                                              *)
(* ---------------------------------------------------------------------- *)

StartsWith(s, p) == Len(s) >= Len(p) /\ SubSeq(s, 1, Len(p)) = p

Contains(s, sub) == \E i \in 1..(Len(s) - Len(sub) + 1) : SubSeq(s, i, i + Len(sub) - 1) = sub

\* The response field of each route, and the words of its error text
FieldOf(ep) ==
    CASE ep = "/generate_overview" -> "overview"
      [] ep = "/generate_technical_qa" -> "technical_qa"
      [] ep = "/generate_hr_qa" -> "hr_qa"
      [] ep = "/generate_interview_tips" -> "interview_tips"

LabelOf(ep) ==
    CASE ep = "/generate_overview" -> "overview"
      [] ep = "/generate_technical_qa" -> "technical Q&A"
      [] ep = "/generate_hr_qa" -> "HR Q&A"
      [] ep = "/generate_interview_tips" -> "interview tips"

\* What a body member stands for once the default is applied
Defaulted(member, d) == IF member.kind = "str" /\ member.val # "" THEN member.val ELSE d

\* Slot r holds a generation request with a role, and its answer is ready
Answered(r) ==
    /\ st[r].endpoint \in PostEndpoints
    /\ st[r].body.role.kind = "str"
    /\ st[r].pc = "done"

\* C1: a generation request with a role is answered with status 200 and an
\* object of exactly four keys: role, experience_level, tech_stack and the
\* field of the route called, whether the model call succeeded or failed.
C1_Envelope ==
    \A r \in Reqs :
        Answered(r) =>
            /\ st[r].resp.status = 200
            /\ DOMAIN st[r].resp.body =
                 {"role", "experience_level", "tech_stack", FieldOf(st[r].endpoint)}
            /\ Cardinality(DOMAIN st[r].resp.body) = 4

C1_Witness ==
    \E r \in Reqs :
        /\ Answered(r)
        /\ st[r].endpoint = "/generate_hr_qa"
        /\ st[r].raisedAt = "kickoff"
        /\ st[r].resp.status = 200
        /\ "hr_qa" \in DOMAIN st[r].resp.body

\* C2 (as amended): when building the crew or running it raises, the answer
\* is still 200, the route's field begins with "Error generating <label>: "
\* where the label is overview, technical Q&A, HR Q&A or interview tips, and
\* role, experience_level and tech_stack are echoed.
C2_ErrorText ==
    \A r \in Reqs :
        (Answered(r) /\ st[r].raisedAt # "none") =>
            /\ st[r].resp.status = 200
            /\ StartsWith(st[r].resp.body[FieldOf(st[r].endpoint)],
                          "Error generating " \o LabelOf(st[r].endpoint) \o ": ")
            /\ st[r].resp.body.role = st[r].body.role.val
            /\ st[r].resp.body.experience_level = Defaulted(st[r].body.experience_level, "Fresher")
            /\ st[r].resp.body.tech_stack = Defaulted(st[r].body.tech_stack, "General")

C2_Witness ==
    \E r \in Reqs :
        /\ Answered(r)
        /\ st[r].endpoint = "/generate_technical_qa"
        /\ st[r].raisedAt = "construct"
        /\ st[r].resp.body.technical_qa = "Error generating technical Q&A: 503 UNAVAILABLE"

\* C2 as stated: the error text begins with "Error generating <category>: "
\* where the category is overview, technical_qa, hr_qa or interview_tips.
C2_Original ==
    \A r \in Reqs :
        (Answered(r) /\ st[r].raisedAt # "none") =>
            /\ st[r].resp.status = 200
            /\ StartsWith(st[r].resp.body[FieldOf(st[r].endpoint)],
                          "Error generating " \o FieldOf(st[r].endpoint) \o ": ")

\* C3: a request without experience_level is answered with "Fresher", one
\* without tech_stack with "General", and the role answered is the role
\* sent, on success and on error alike.
C3_Defaults ==
    \A r \in Reqs :
        Answered(r) =>
            /\ st[r].resp.status = 200
            /\ st[r].resp.body.role = st[r].body.role.val
            /\ st[r].body.experience_level.kind = "absent" =>
                   st[r].resp.body.experience_level = "Fresher"
            /\ st[r].body.tech_stack.kind = "absent" =>
                   st[r].resp.body.tech_stack = "General"

C3_Witness ==
    \E r \in Reqs :
        /\ st[r].pc = "done"
        /\ st[r].endpoint = "/generate_overview"
        /\ st[r].body = MkBody(JsonStr("Data Analyst"), Absent, Absent)
        /\ st[r].resp.body.role = "Data Analyst"
        /\ st[r].resp.body.experience_level = "Fresher"
        /\ st[r].resp.body.tech_stack = "General"

\* C4: a generation request without role is refused with a client error,
\* and for it the handler is never entered: no task is built, no crew is
\* kicked off, nothing is outstanding.
C4_MissingRole ==
    \A r \in Reqs :
        (st[r].endpoint \in PostEndpoints /\ st[r].body.role.kind = "absent") =>
            /\ st[r].pc \in {"received", "done"}
            /\ st[r].request = NoRequest
            /\ st[r].task = ""
            /\ st[r].kickoffs = 0
            /\ ~st[r].pending
            /\ st[r].pc = "done" => st[r].resp.status \in 400..499

C4_Witness ==
    \E r \in Reqs :
        /\ st[r].endpoint \in PostEndpoints
        /\ st[r].body.role.kind = "absent"
        /\ st[r].pc = "done"
        /\ st[r].resp.status = 422
        /\ st[r].kickoffs = 0

\* C10: an experience_level sent as null or "" is answered with "Fresher",
\* a tech_stack sent as null or "" with "General"; the answer never holds an
\* empty one, and a non-empty value sent is answered unchanged.
C10_Falsy ==
    \A r \in Reqs :
        Answered(r) =>
            LET b == st[r].body
                out == st[r].resp.body
            IN /\ (b.experience_level.kind = "null" \/ b.experience_level = JsonStr("")) =>
                      out.experience_level = "Fresher"
               /\ (b.tech_stack.kind = "null" \/ b.tech_stack = JsonStr("")) =>
                      out.tech_stack = "General"
               /\ out.experience_level # "" /\ out.tech_stack # ""
               /\ (b.experience_level.kind = "str" /\ b.experience_level.val # "") =>
                      out.experience_level = b.experience_level.val
               /\ (b.tech_stack.kind = "str" /\ b.tech_stack.val # "") =>
                      out.tech_stack = b.tech_stack.val

C10_Witness ==
    \E r \in Reqs :
        /\ Answered(r)
        /\ st[r].body.experience_level = JsonStr("")
        /\ st[r].body.tech_stack = JsonNull
        /\ st[r].resp.body.experience_level = "Fresher"
        /\ st[r].resp.body.tech_stack = "General"

\* C5 (as amended): a generation request with a role causes at most one
\* kickoff: exactly one when agent, task and crew are built, none when
\* building them raises. The kickoff comes after validation, it is never
\* repeated, and the answer is never ready while it is outstanding.
C5_OneKickoff ==
    \A r \in Reqs :
        /\ st[r].kickoffs <= 1
        /\ st[r].pending <=> st[r].pc = "awaiting"
        /\ st[r].pending => st[r].kickoffs = 1
        /\ st[r].kickoffs = 1 => (st[r].request # NoRequest /\ st[r].body.role.kind = "str")
        /\ st[r].resp # NoResp => ~st[r].pending
        /\ Answered(r) => (st[r].kickoffs = 1 <=> st[r].raisedAt # "construct")
        /\ (Answered(r) /\ st[r].raisedAt = "kickoff") => st[r].kickoffs = 1

C5_Witness ==
    \E r \in Reqs :
        /\ Answered(r)
        /\ st[r].raisedAt = "kickoff"
        /\ st[r].kickoffs = 1
        /\ st[r].resp.status = 200

\* C5 as stated: every generation request with a role causes exactly one
\* kickoff, finished before the answer is ready.
C5_Original ==
    \A r \in Reqs :
        /\ st[r].kickoffs <= 1
        /\ st[r].resp # NoResp => ~st[r].pending
        /\ Answered(r) => st[r].kickoffs = 1

\* C6: the instruction string of a request holds its role, its experience
\* level and its tech stack (both after defaulting), and two requests to one
\* route with the same three values get the same string.
C6_Instruction ==
    /\ \A r \in Reqs :
           st[r].task # "" =>
               /\ Contains(st[r].task, st[r].body.role.val)
               /\ Contains(st[r].task, Defaulted(st[r].body.experience_level, "Fresher"))
               /\ Contains(st[r].task, Defaulted(st[r].body.tech_stack, "General"))
    /\ \A r, q \in Reqs :
           ( /\ st[r].task # "" /\ st[q].task # ""
             /\ st[r].endpoint = st[q].endpoint
             /\ st[r].role = st[q].role /\ st[r].exp = st[q].exp /\ st[r].tech = st[q].tech )
           => st[r].task = st[q].task

\* What a request at work holds is what its own body says
OwnFields(r) ==
    /\ (st[r].endpoint \in PostEndpoints /\ st[r].pc \in {"awaiting", "done"}
          /\ st[r].request # NoRequest) =>
           /\ st[r].role = st[r].body.role.val
           /\ st[r].exp = Defaulted(st[r].body.experience_level, "Fresher")
           /\ st[r].tech = Defaulted(st[r].body.tech_stack, "General")
    /\ Answered(r) =>
           /\ st[r].resp.body.role = st[r].body.role.val
           /\ st[r].resp.body.experience_level = Defaulted(st[r].body.experience_level, "Fresher")
           /\ st[r].resp.body.tech_stack = Defaulted(st[r].body.tech_stack, "General")
           /\ st[r].resp.body[FieldOf(st[r].endpoint)] = st[r].text
           /\ st[r].raisedAt = "none" <=> st[r].text \in Texts

\* C7: under every interleaving a request's locals and answer come from its
\* own body and its own kickoff, and a step of one request changes nothing
\* of another.
C7_NoSharing ==
    /\ [](\A r \in Reqs : OwnFields(r))
    /\ [][\A r, q \in Reqs : (r # q /\ st'[r] # st[r]) => st'[q] = st[q]]_vars

C7_Witness ==
    \E r, q \in Reqs :
        /\ r # q
        /\ Answered(r) /\ Answered(q)
        /\ st[r].raisedAt = "kickoff" /\ st[q].raisedAt = "none"
        /\ st[r].body.role.val # st[q].body.role.val
        /\ st[r].resp.body.role = st[r].body.role.val
        /\ st[q].resp.body.role = st[q].body.role.val

\* C8: a health request is answered 200 {"status": "ok"} and kicks off
\* nothing, whatever the generation requests are doing or have done.
C8_Health ==
    \A r \in Reqs :
        st[r].endpoint = "/health" =>
            /\ st[r].pc = "done"
            /\ st[r].resp = [status |-> 200, body |-> [status |-> "ok"]]
            /\ st[r].kickoffs = 0
            /\ ~st[r].pending

C8_Witness ==
    \E r, q \in Reqs :
        /\ st[r].endpoint = "/health"
        /\ st[r].resp.body.status = "ok"
        /\ st[q].pc = "awaiting"

\* C9: with GEMINI_API_KEY unset the service never serves: no LLM is built
\* and no request is taken on any route; every request taken runs with a
\* key that was set.
C9_Startup ==
    /\ env = None =>
           /\ proc # "serving"
           /\ gemini_llm = None
           /\ \A r \in Reqs : st[r] = Idle
    /\ (\E r \in Reqs : st[r] # Idle) =>
           /\ env # None
           /\ GEMINI_API_KEY = env
           /\ gemini_llm # None

C9_Witness == env = None /\ proc = "crashed" /\ gemini_llm = None

====
